---- MODULE Spec2Model ----
(***************************************************************************)
(* Model of CrossSigningIdentity (rust-crypto/CrossSigningIdentity.ts):    *)
(* bootstrapCrossSigning, resetCrossSigning and                            *)
(* exportCrossSigningKeysToStorage, together with the collaborators they   *)
(* drive: the OlmMachine (signing engine), the ServerSideSecretStorage,    *)
(* the OutgoingRequestProcessor and the homeserver.                        *)
(*                                                                         *)
(* Every `await` of the TypeScript code is a point where another           *)
(* bootstrapCrossSigning call may run, so each awaited call is one action  *)
(* and the position of each call is kept in pc.                            *)
(***************************************************************************)
EXTENDS Integers, Sequences, FiniteSets, TLC

\* ------------------------------------------------------------------ bounds
\* total number of bootstrapCrossSigning calls made by the application
MaxCalls == 3

\* callers (async call chains); under Spec each makes one call
Procs == {1, 2}

\* the single caller of SeqSpec, which starts a call only after the
\* previous one returned
SeqProcs == {1}

\* ------------------------------------------------------------- vocabulary
\* the three cross-signing secrets
KeyNames == {"master", "self_signing", "user_signing"}

\* a key set nobody holds (0 = absent, n > 0 = the n-th generated key set)
NoKeys == [k \in KeyNames |-> 0]

NoStatus == [k \in KeyNames |-> FALSE]

\* key set 1 restricted to the names of S
Holding(S) == [k \in KeyNames |-> IF k \in S THEN 1 ELSE 0]

\* the holdings a store starts with: nothing, one secret, two secrets, all three
InitialHoldings ==
    { Holding({}), Holding({"master"}), Holding({"self_signing", "user_signing"}), Holding(KeyNames) }

VARIABLES
    olm,          \* private keys held by the OlmMachine, per key name
    storage,      \* content of the secret storage, per key name
    ssConfigured, \* whether secret storage is set up on the account
    server,       \* public keys / own-device signature published on the server
    nextKey,      \* id of the next key set the OlmMachine generates
    calls,        \* number of bootstrapCrossSigning calls started
    call,         \* per caller: the running (or last returned) call, see NewCall
    prev,         \* per caller: summary of its call before this one
    receipts,     \* the room's receipt structure, per (userId, receiptType, threadKey)
    lastAdd,      \* the last addReceiptToStructure call and the record it found
    adds,         \* number of addReceiptToStructure calls made
    sentReceipt,  \* the last receipt built by sendReceipt / synthesizeReceipt
    deviceTrust   \* the last DeviceVerificationStatus constructed, with its opts

vars == <<olm, storage, ssConfigured, server, nextKey, calls, call, prev,
          receipts, lastAdd, adds, sentReceipt, deviceTrust>>

bootstrapVars == <<olm, storage, ssConfigured, server, nextKey, calls, call, prev>>

receiptVars == <<receipts, lastAdd, adds>>

apiVars == <<sentReceipt, deviceTrust>>

shared == <<olm, storage, ssConfigured, server, nextKey>>

\* the locals of a call that is not running
NoLocals ==
    [ olmDeviceStatus |-> NoStatus, \* result of crossSigningStatus()
      secrets |-> NoKeys,           \* the three values read from secret storage
      reqs |-> << >>,               \* outgoingRequests / the signature upload request
      idx |-> 1,                    \* position of the for loop in outgoingRequests
      authed |-> FALSE ]            \* the in-flight request carries auth data

\* a call that ignores opts.setupNewCrossSigning (no early return into resetCrossSigning)
NewCallIgnoringReset(setupNew, auth, olmHeld, stored) ==
    [ pc |-> "status",
      opts |-> [setupNewCrossSigning |-> setupNew, auth |-> auth],
      decision |-> "none",
      loc |-> NoLocals,
      inflight |-> {},
      result |-> "none",
      sent |-> << >>,
      gen |-> 0,
      imported |-> FALSE,
      exportCalls |-> 0,
      cb |-> 0,
      reqErr |-> "none",
      failedAt |-> 0,
      pre |-> [olm |-> olmHeld, storage |-> stored] ]

\* a call as it starts, the stores holding olmHeld and stored
NewCall(setupNew, auth, olmHeld, stored) ==
    [ pc |-> IF setupNew THEN "reset_gen" ELSE "status",
      opts |-> [setupNewCrossSigning |-> setupNew, auth |-> auth],
      decision |-> IF setupNew THEN "Reset" ELSE "none", \* branch taken
      loc |-> NoLocals,
      inflight |-> {},     \* requests handed to the processor and not completed
      result |-> "none",   \* "ok" or the error the call returned with
      sent |-> << >>,      \* history: requests dispatched, in order
      gen |-> 0,           \* history: key sets generated
      imported |-> FALSE,  \* history: importCrossSigningKeys took effect
      exportCalls |-> 0,   \* history: exportCrossSigningKeysToStorage invocations
      cb |-> 0,            \* history: onCrossSigningKeysImport invocations
      reqErr |-> "none",   \* history: error raised by the request processor
      failedAt |-> 0,      \* history: the request that error was raised for
      pre |-> [olm |-> olmHeld, storage |-> stored] ] \* history: the stores when the call started

\* a caller that has not called yet
NoCall == [NewCall(FALSE, FALSE, NoKeys, NoKeys) EXCEPT !.pc = "idle"]

NoPrev == [dec |-> "none", res |-> "none", reset |-> FALSE, gen |-> 0, imported |-> FALSE]

\* ---------------------------------------------------------- pure functions

\* an olmDeviceHasKeys that is content with any one of the keys (|| for &&)
olmDeviceHasAnyKey(status) ==
    status["master"] \/ status["user_signing"] \/ status["self_signing"]

\* olmDeviceHasKeys: all three private keys are held
olmDeviceHasKeys(status) ==
    status["master"] /\ status["user_signing"] /\ status["self_signing"]

\* a privateKeysInSecretStorage that is content with any one of the secrets (|| for &&)
AnySecretInStorage(sec) ==
    sec["master"] # 0 \/ sec["self_signing"] # 0 \/ sec["user_signing"] # 0

\* privateKeysInSecretStorage: all three secrets were found
privateKeysInSecretStorage(sec) ==
    sec["master"] # 0 /\ sec["self_signing"] # 0 /\ sec["user_signing"] # 0

\* a Decide that looks at the storage before the local keys
DecideStorageFirst(hasKeys, inStorage) ==
    IF ~inStorage THEN "Reset"
    ELSE IF hasKeys THEN "Export"
    ELSE "Import"

\* a Decide that prefers the import over the export
DecideImportFirst(hasKeys, inStorage) ==
    IF ~hasKeys /\ ~inStorage THEN "Reset"
    ELSE IF inStorage THEN "Import"
    ELSE "Export"

\* the if / else if chain of bootstrapCrossSigning
Decide(hasKeys, inStorage) ==
    IF ~hasKeys /\ ~inStorage THEN "Reset"
    ELSE IF hasKeys THEN "Export"
    ELSE IF inStorage THEN "Import"
    ELSE "NoOp"

\* first awaited step of each branch; a call that takes no branch would go
\* straight to "complete", which Decide never yields
BranchPc(dec) ==
    CASE dec = "Reset" -> "reset_gen"
      [] dec = "Export" -> "export"
      [] dec = "Import" -> "import"
      [] OTHER -> "complete"

\* exportCrossSigningKeysToStorage: the body is a TODO, the storage is left as it is
ExportedStorage(keys, store, configured) == store

\* OlmMachine.bootstrapCrossSigning(true): the requests that publish key set k
GeneratedRequests(k) ==
    << [type |-> "keys", key |-> k], [type |-> "sig", key |-> k] >>

\* effect of an accepted request on the server
ServerApply(srv, req) ==
    IF req.type = "keys" THEN [srv EXCEPT !.pubKeys = req.key]
    ELSE [srv EXCEPT !.deviceSig = req.key]

\* a for loop that does not await makeOutgoingRequest
PcAfterDispatchNoAwait == "publish"

\* `await makeOutgoingRequest(req, ...)`: the call is suspended until the request completes
PcAfterDispatch == "await_req"

\* an error of makeOutgoingRequest that is caught and skipped
OnRequestErrorSwallow(err) == [pc |-> "publish", result |-> "none"]

\* an error of makeOutgoingRequest that is caught and answered by importing from storage
OnRequestErrorFallbackImport(err) == [pc |-> "import", result |-> "none"]

\* a failed request makes the call start over with new keys (an internal retry)
OnRequestErrorRestart(err) == [pc |-> "reset_gen", result |-> "none"]

\* an error of makeOutgoingRequest is not caught: the call rejects with it
OnRequestError(err) == [pc |-> "idle", result |-> err]

\* the auth callback handed to makeOutgoingRequest for the in-flight request
HasAuthCallback(c) == c.decision = "Reset" /\ c.opts.auth


\* ------------------------------------------------------------ initial state
\* ------------------------------------------------------------ read receipts

MaxTs == 2

MaxAdds == 4

Users == {"@alice", "@bob"}

ReceiptTypes == {"m.read.private"}

EventIds == {"$olderEvent", "$newerEvent"}

MAIN_ROOM_TIMELINE == "main"

ThreadIds == {"$threadA"}

\* the thread an update is for: the main timeline, a thread, or none (legacy)
Unthreaded == "unthreaded"

ThreadKeys == {MAIN_ROOM_TIMELINE} \cup ThreadIds

NoReceipt == [eventId |-> "none", ts |-> 0, thread_id |-> "none"]

NoReceipts == [u \in Users, t \in ReceiptTypes, k \in ThreadKeys |-> NoReceipt]

NoAdd == [eventId |-> "none", receiptType |-> "none", userId |-> "none", ts |-> 0,
          thread_id |-> "none", existing |-> NoReceipt]

ThreadKeyOfAlwaysMain(thread) == MAIN_ROOM_TIMELINE

\* the record an update is merged into: the main timeline's for an update
\* flagged as main timeline or carrying no thread key, else its thread's
ThreadKeyOf(thread) ==
    IF thread = MAIN_ROOM_TIMELINE \/ thread = Unthreaded THEN MAIN_ROOM_TIMELINE ELSE thread

KeepsExistingNever(existing, ts) == FALSE

KeepsExistingUnlessOlder(existing, ts) == existing # NoReceipt /\ existing.ts >= ts

\* the update is dropped when the existing record has a strictly greater timestamp
KeepsExisting(existing, ts) == existing # NoReceipt /\ existing.ts > ts

addReceiptToStructure(rs, eventId, receiptType, userId, ts, thread) ==
    LET k == ThreadKeyOf(thread) IN
    IF KeepsExisting(rs[userId, receiptType, k], ts)
    THEN rs
    ELSE [rs EXCEPT ![userId, receiptType, k] =
              [eventId |-> eventId, ts |-> ts, thread_id |-> thread]]

\* "none" when no main-timeline record exists
getEventReadUpTo(rs, userId, receiptType) == rs[userId, receiptType, MAIN_ROOM_TIMELINE].eventId

\* ------------------------------------------------------------ thread id of a receipt

THREAD_ID == "$thread_event_id"

\* an event: its id, its m.relates_to (rel_type, event_id) and the thread it
\* was attached to with setThread
roomEvent ==
    [id |-> "$room", rel_type |-> "none", relates_to |-> "none", thread |-> "none"]

threadEvent ==
    [id |-> "$reply", rel_type |-> "m.thread", relates_to |-> THREAD_ID, thread |-> "none"]

threadEventInThread == [threadEvent EXCEPT !.thread = THREAD_ID]

\* a reaction to the thread root, attached to the thread
reaction ==
    [id |-> "$reaction", rel_type |-> "m.annotation", relates_to |-> THREAD_ID,
     thread |-> THREAD_ID]

SentReceiptTypes == {"m.read", "m.read.private", "m.fully_read"}

threadRootId(e) == IF e.rel_type = "m.thread" THEN e.relates_to ELSE e.thread

isThreadRoot(e) == e.thread # "none" /\ e.thread = e.id

inMainTimelineForReceiptNoRelations(e) == threadRootId(e) = "none" \/ isThreadRoot(e)

\* a room event, a thread root, and a non-thread relation to a thread root
\* are read in the main timeline
inMainTimelineForReceipt(e) ==
    \/ threadRootId(e) = "none"
    \/ isThreadRoot(e)
    \/ e.rel_type \notin {"none", "m.thread"} /\ e.relates_to = threadRootId(e)

\* the thread_id of the body sendReceipt posts ("undefined": no thread_id)
sendReceiptThreadId(e, unthreaded, supportsThreads) ==
    IF unthreaded \/ ~supportsThreads THEN "undefined"
    ELSE IF inMainTimelineForReceipt(e) THEN MAIN_ROOM_TIMELINE
    ELSE threadRootId(e)

\* the thread_id of the content of the event synthesizeReceipt makes
synthesizeReceiptThreadId(e) ==
    IF threadRootId(e) = "none" THEN MAIN_ROOM_TIMELINE ELSE threadRootId(e)

NoSentReceipt ==
    [op |-> "none", event |-> roomEvent, receiptType |-> "none", userId |-> "none",
     unthreaded |-> FALSE, supportsThreads |-> FALSE, thread_id |-> "none"]

\* ------------------------------------------------------------ DeviceVerificationStatus

StatusFlags ==
    {"signedByOwner", "crossSigningVerified", "tofu", "localVerified", "trustCrossSignedDevices"}

\* Partial<DeviceVerificationStatus>: any of the flags, each true or false
StatusOpts == UNION {[S -> BOOLEAN] : S \in SUBSET StatusFlags}

\* opts.f ?? false
OrFalse(opts, f) == IF f \in DOMAIN opts THEN opts[f] ELSE FALSE

DeviceVerificationStatus(opts) == [f \in StatusFlags |-> OrFalse(opts, f)]

isVerifiedAny(st) ==
    st["localVerified"] \/ st["trustCrossSignedDevices"] \/ st["crossSigningVerified"]

isVerified(st) ==
    st["localVerified"] \/ (st["trustCrossSignedDevices"] /\ st["crossSigningVerified"])

NoDeviceTrust == [made |-> FALSE, opts |-> << >>, status |-> DeviceVerificationStatus(<< >>)]

Init ==
    /\ olm \in InitialHoldings
    /\ ssConfigured \in BOOLEAN
    /\ storage \in InitialHoldings
    /\ (~ssConfigured => storage = NoKeys)
    /\ server \in [pubKeys : {0, 1}, deviceSig : {0, 1}]
    /\ (server.pubKeys = 0 => server.deviceSig = 0)
    /\ nextKey = 2
    /\ calls = 0
    /\ call = [p \in Procs |-> NoCall]
    /\ prev = [p \in Procs |-> NoPrev]
    /\ receipts = NoReceipts
    /\ lastAdd = NoAdd
    /\ adds = 0
    /\ sentReceipt = NoSentReceipt
    /\ deviceTrust = NoDeviceTrust

\* ------------------------------------------------------------------ actions

\* a call that resolves whatever happened
ReturnSwallowing(c, res) == [c EXCEPT !.pc = "idle", !.result = "ok", !.loc = NoLocals]

\* the call returns (resolves with "ok" or rejects with an error); its locals are gone
Return(c, res) == [c EXCEPT !.pc = "idle", !.result = res, !.loc = NoLocals]

\* bootstrapCrossSigning(opts) is called; with setupNewCrossSigning the call
\* goes straight to resetCrossSigning
Call(p, setupNew, auth) ==
    /\ call[p].pc = "idle"
    /\ calls < MaxCalls
    /\ calls' = calls + 1
    /\ prev' = [prev EXCEPT ![p] =
                  [dec |-> call[p].decision, res |-> call[p].result,
                   reset |-> call[p].opts.setupNewCrossSigning,
                   gen |-> call[p].gen, imported |-> call[p].imported]]
    /\ call' = [call EXCEPT ![p] = NewCall(setupNew, auth, olm, storage)]
    /\ UNCHANGED shared

\* await this.olmMachine.crossSigningStatus()
Status(p, ok) ==
    /\ call[p].pc = "status"
    /\ call' = [call EXCEPT ![p] =
                  IF ok
                  THEN [@ EXCEPT !.loc.olmDeviceStatus = [k \in KeyNames |-> olm[k] # 0],
                                 !.pc = "get_master"]
                  ELSE Return(@, "EngineFailure")]
    /\ UNCHANGED <<shared, calls, prev>>

\* ServerSideSecretStorage.get(name): the stored secret, or nothing
SecretStorageGet(name) == IF ssConfigured THEN storage[name] ELSE 0

\* one of the first two reads of the secret storage
GetSecret(p, at, name, next, ok) ==
    /\ call[p].pc = at
    /\ call' = [call EXCEPT ![p] =
                  IF ok
                  THEN [@ EXCEPT !.loc.secrets[name] = SecretStorageGet(name), !.pc = next]
                  ELSE Return(@, "StorageError")]
    /\ UNCHANGED <<shared, calls, prev>>

\* await this.secretStorage.get("m.cross_signing.master")
GetMaster(p, ok) == GetSecret(p, "get_master", "master", "get_self_signing", ok)

\* await this.secretStorage.get("m.cross_signing.self_signing")
GetSelfSigning(p, ok) == GetSecret(p, "get_self_signing", "self_signing", "get_user_signing", ok)

\* await this.secretStorage.get("m.cross_signing.user_signing"), then the
\* synchronous code up to the branch taken
GetUserSigning(p, ok) ==
    /\ call[p].pc = "get_user_signing"
    /\ call' = [call EXCEPT ![p] =
                  IF ok
                  THEN LET sec == [@.loc.secrets EXCEPT !["user_signing"] = SecretStorageGet("user_signing")]
                           dec == Decide(olmDeviceHasKeys(@.loc.olmDeviceStatus),
                                         privateKeysInSecretStorage(sec))
                       IN [@ EXCEPT !.loc.secrets = sec, !.decision = dec, !.pc = BranchPc(dec)]
                  ELSE Return(@, "StorageError")]
    /\ UNCHANGED <<shared, calls, prev>>

\* resetCrossSigning: await this.olmMachine.bootstrapCrossSigning(true)
ResetGenerate(p, ok) ==
    /\ call[p].pc = "reset_gen"
    /\ IF ok
       THEN /\ olm' = [k \in KeyNames |-> nextKey]
            /\ nextKey' = nextKey + 1
            /\ call' = [call EXCEPT ![p] =
                          [@ EXCEPT !.loc.reqs = GeneratedRequests(nextKey), !.loc.idx = 1,
                                    !.gen = @ + 1, !.pc = "publish"]]
       ELSE /\ call' = [call EXCEPT ![p] = Return(@, "EngineFailure")]
            /\ UNCHANGED <<olm, nextKey>>
    /\ UNCHANGED <<storage, ssConfigured, server, calls, prev>>

\* the request processor takes request i of call c
Dispatch(c, i) ==
    [c EXCEPT !.inflight = @ \cup {i}, !.loc.authed = FALSE, !.sent = Append(@, i),
              !.loc.idx = i + 1, !.pc = PcAfterDispatch]

\* a loop that uploads only when an auth callback was given
HasNextRequestIfAuth(c) == c.opts.auth /\ c.loc.idx <= Len(c.loc.reqs)

\* `for (const req of outgoingRequests)`: there is a request left to submit
HasNextRequest(c) == c.loc.idx <= Len(c.loc.reqs)

\* resetCrossSigning: the for loop over outgoingRequests
Publish(p) ==
    /\ call[p].pc = "publish"
    /\ call' = [call EXCEPT ![p] =
                  IF HasNextRequest(@)
                  THEN Dispatch(@, @.loc.idx)
                  ELSE [@ EXCEPT !.pc = "export"]]
    /\ UNCHANGED <<shared, calls, prev>>

\* exportCrossSigningKeysToStorage, then "bootStrapCrossSigning: complete"
Export(p) ==
    /\ call[p].pc = "export"
    /\ storage' = ExportedStorage(olm, storage, ssConfigured)
    /\ call' = [call EXCEPT ![p] = Return([@ EXCEPT !.exportCalls = @ + 1], "ok")]
    /\ UNCHANGED <<olm, ssConfigured, server, nextKey, calls, prev>>

\* await this.olmMachine.importCrossSigningKeys(master, selfSigning, userSigning)
ImportKeys(p, ok) ==
    /\ call[p].pc = "import"
    /\ IF ok
       THEN /\ olm' = call[p].loc.secrets
            /\ call' = [call EXCEPT ![p] = [@ EXCEPT !.imported = TRUE, !.pc = "get_device"]]
       ELSE /\ call' = [call EXCEPT ![p] = Return(@, "EngineFailure")]
            /\ UNCHANGED olm
    /\ UNCHANGED <<storage, ssConfigured, server, nextKey, calls, prev>>

\* await this.olmMachine.getDevice(userId, deviceId)
GetDevice(p, ok) ==
    /\ call[p].pc = "get_device"
    /\ call' = [call EXCEPT ![p] =
                  IF ok THEN [@ EXCEPT !.pc = "verify"] ELSE Return(@, "EngineFailure")]
    /\ UNCHANGED <<shared, calls, prev>>

\* await device.verify(): the own device signed with the self-signing key
Verify(p, ok) ==
    /\ call[p].pc = "verify"
    /\ call' = [call EXCEPT ![p] =
                  IF ok
                  THEN [@ EXCEPT !.loc.reqs = << [type |-> "sig", key |-> olm["self_signing"]] >>,
                                 !.loc.idx = 1, !.pc = "import_submit"]
                  ELSE Return(@, "EngineFailure")]
    /\ UNCHANGED <<shared, calls, prev>>

\* this.outgoingRequestProcessor.makeOutgoingRequest(request) of the import branch
ImportSubmit(p) ==
    /\ call[p].pc = "import_submit"
    /\ call' = [call EXCEPT ![p] = Dispatch(@, 1)]
    /\ UNCHANGED <<shared, calls, prev>>

\* an import branch that completes without calling onCrossSigningKeysImport
ResumeAfterRequestNoCallback(c) ==
    IF c.decision = "Import"
    THEN Return(c, "ok")
    ELSE [c EXCEPT !.pc = "publish"]

\* the code after `await makeOutgoingRequest(...)`: the import branch calls
\* onCrossSigningKeysImport and completes, the reset branch goes on with its loop
ResumeAfterRequest(c) ==
    IF c.decision = "Import"
    THEN Return([c EXCEPT !.cb = @ + 1], "ok")
    ELSE [c EXCEPT !.pc = "publish"]

\* the server accepts the in-flight request; the awaiting call resumes: the
\* reset branch goes on with its loop, the import branch calls
\* onCrossSigningKeysImport and completes
RequestSuccess(p, i) ==
    /\ call[p].pc = "await_req"
    /\ i \in call[p].inflight
    /\ server' = ServerApply(server, call[p].loc.reqs[i])
    /\ call' = [call EXCEPT ![p] = ResumeAfterRequest([@ EXCEPT !.inflight = @ \ {i}])]
    /\ UNCHANGED <<olm, storage, ssConfigured, nextKey, calls, prev>>

\* makeOutgoingRequest rejects with err
RequestRejects(c, i, err) ==
    LET to == OnRequestError(err)
        d == [c EXCEPT !.inflight = @ \ {i}, !.reqErr = err, !.failedAt = i]
    IN IF to.pc = "idle" THEN Return(d, to.result) ELSE [d EXCEPT !.pc = to.pc]

\* the request fails: the network is down, or the server refuses it (for one
\* sent without auth data: the refusal of an unauthenticated request)
RequestFail(p, i, err) ==
    /\ call[p].pc = "await_req"
    /\ i \in call[p].inflight
    /\ call' = [call EXCEPT ![p] = RequestRejects(@, i, err)]
    /\ UNCHANGED <<shared, calls, prev>>

\* the server answers with an authentication challenge and a callback was given
RequestChallenge(p, i) ==
    /\ call[p].pc = "await_req"
    /\ i \in call[p].inflight
    /\ ~call[p].loc.authed
    /\ HasAuthCallback(call[p])
    /\ call' = [call EXCEPT ![p].pc = "auth_cb"]
    /\ UNCHANGED <<shared, calls, prev>>

\* the auth callback returns auth data (the request is sent again with it) or rejects
AuthCallback(p, i, ok) ==
    /\ call[p].pc = "auth_cb"
    /\ i \in call[p].inflight
    /\ call' = [call EXCEPT ![p] =
                  IF ok
                  THEN [@ EXCEPT !.loc.authed = TRUE, !.pc = "await_req"]
                  ELSE RequestRejects(@, i, "AuthRejected")]
    /\ UNCHANGED <<shared, calls, prev>>

\* ----------------------------------------------------------- specifications
RequestErrors == {"NetworkError", "ServerRejected"}

Step(p) ==
    \/ \E ok \in BOOLEAN : Status(p, ok)
    \/ \E ok \in BOOLEAN : GetMaster(p, ok)
    \/ \E ok \in BOOLEAN : GetSelfSigning(p, ok)
    \/ \E ok \in BOOLEAN : GetUserSigning(p, ok)
    \/ \E ok \in BOOLEAN : ResetGenerate(p, ok)
    \/ Publish(p)
    \/ Export(p)
    \/ \E ok \in BOOLEAN : ImportKeys(p, ok)
    \/ \E ok \in BOOLEAN : GetDevice(p, ok)
    \/ \E ok \in BOOLEAN : Verify(p, ok)
    \/ ImportSubmit(p)
    \/ \E i \in 1..2 : RequestSuccess(p, i)
    \/ \E i \in 1..2, err \in RequestErrors : RequestFail(p, i, err)
    \/ \E i \in 1..2 : RequestChallenge(p, i)
    \/ \E i \in 1..2, ok \in BOOLEAN : AuthCallback(p, i, ok)

\* caller p has made a call
Used(p) == call[p].pc # "idle" \/ call[p].result # "none"

\* two parts of the application call bootstrapCrossSigning once each, the
\* second possibly while the first call is running (the callers are
\* interchangeable, so caller 1 is the one that calls first)
Next ==
    \E p \in Procs :
        \/ /\ ~Used(p)
           /\ \A q \in Procs : q < p => Used(q)
           /\ \E setupNew \in BOOLEAN, auth \in BOOLEAN : Call(p, setupNew, auth)
           /\ UNCHANGED <<receiptVars, apiVars>>
        \/ Step(p) /\ UNCHANGED <<receiptVars, apiVars>>

Spec == Init /\ [][Next]_vars

\* one caller makes up to MaxCalls calls and awaits each before it makes the next
SeqNext ==
    \E p \in SeqProcs :
        \/ /\ \E setupNew \in BOOLEAN, auth \in BOOLEAN : Call(p, setupNew, auth)
           /\ UNCHANGED <<receiptVars, apiVars>>
        \/ Step(p) /\ UNCHANGED <<receiptVars, apiVars>>

SeqSpec == Init /\ [][SeqNext]_vars

\* a receipt arrives (from sync, or generated locally) and is merged
AddReceipt(eventId, receiptType, userId, ts, thread) ==
    /\ adds < MaxAdds
    /\ adds' = adds + 1
    /\ receipts' = addReceiptToStructure(receipts, eventId, receiptType, userId, ts, thread)
    /\ lastAdd' = [eventId |-> eventId, receiptType |-> receiptType, userId |-> userId,
                   ts |-> ts, thread_id |-> thread,
                   existing |-> receipts[userId, receiptType, ThreadKeyOf(thread)]]
    /\ UNCHANGED <<bootstrapVars, apiVars>>

ReceiptInit ==
    /\ Init
    /\ olm = NoKeys /\ storage = NoKeys /\ ~ssConfigured
    /\ server = [pubKeys |-> 0, deviceSig |-> 0]

ReceiptNext ==
    \E eventId \in EventIds, receiptType \in ReceiptTypes, userId \in Users,
       ts \in 0..MaxTs, thread \in ThreadKeys \cup {Unthreaded} :
        AddReceipt(eventId, receiptType, userId, ts, thread)

\* receipts are added to a room, in any order and for any thread
ReceiptSpec == ReceiptInit /\ [][ReceiptNext]_vars

SendReceipt(event, receiptType, unthreaded, supportsThreads) ==
    /\ sentReceipt' = [op |-> "sendReceipt", event |-> event, receiptType |-> receiptType,
                       userId |-> "none", unthreaded |-> unthreaded,
                       supportsThreads |-> supportsThreads,
                       thread_id |-> sendReceiptThreadId(event, unthreaded, supportsThreads)]
    /\ UNCHANGED <<bootstrapVars, receiptVars, deviceTrust>>

SynthesizeReceipt(userId, event, receiptType) ==
    /\ sentReceipt' = [op |-> "synthesizeReceipt", event |-> event,
                       receiptType |-> receiptType, userId |-> userId,
                       unthreaded |-> FALSE, supportsThreads |-> TRUE,
                       thread_id |-> synthesizeReceiptThreadId(event)]
    /\ UNCHANGED <<bootstrapVars, receiptVars, deviceTrust>>

NewDeviceVerificationStatus(opts) ==
    /\ deviceTrust' = [made |-> TRUE, opts |-> opts, status |-> DeviceVerificationStatus(opts)]
    /\ UNCHANGED <<bootstrapVars, receiptVars, sentReceipt>>

ClientNext ==
    \/ \E event \in {roomEvent, threadEvent, threadEventInThread, reaction},
          receiptType \in SentReceiptTypes, unthreaded \in BOOLEAN, supportsThreads \in BOOLEAN :
            SendReceipt(event, receiptType, unthreaded, supportsThreads)
    \/ \E userId \in Users, event \in {roomEvent, threadEvent}, receiptType \in SentReceiptTypes :
            SynthesizeReceipt(userId, event, receiptType)
    \/ \E opts \in StatusOpts : NewDeviceVerificationStatus(opts)

\* the pure operations of the client API, applied to every input
ClientSpec == ReceiptInit /\ [][ClientNext]_vars

\* ------------------------------------------------------------ status queries

\* all three keys of a holding are present
AllHeld(h) == \A k \in KeyNames : h[k] # 0

\* CryptoApi.getCrossSigningStatus
getCrossSigningStatus ==
    [ publicKeysOnDevice |-> AllHeld(olm),
      privateKeysInSecretStorage |-> ssConfigured /\ AllHeld(storage),
      privateKeysCachedLocally |->
          [ masterKey |-> olm["master"] # 0,
            selfSigningKey |-> olm["self_signing"] # 0,
            userSigningKey |-> olm["user_signing"] # 0 ] ]

\* CryptoApi.isCrossSigningReady: the public keys are published on the account
\* and the private keys are cached locally or stored in secret storage
isCrossSigningReady ==
    /\ server.pubKeys # 0
    /\ AllHeld(olm) \/ (ssConfigured /\ AllHeld(storage))

\* ReconciliationDecision as the decision table gives it
DecisionTable(requestedReset, keysLocal, keysInStorage) ==
    CASE requestedReset -> "Reset"
      [] ~requestedReset /\ ~keysLocal /\ ~keysInStorage -> "Reset"
      [] ~requestedReset /\ keysLocal -> "Export"
      [] ~requestedReset /\ ~keysLocal /\ keysInStorage -> "Import"

\* the call has taken a branch and has not returned
InBranch(c) ==
    c.pc \in {"reset_gen", "publish", "await_req", "auth_cb", "export",
              "import", "get_device", "verify", "import_submit"}

\* the call has returned successfully
Succeeded(c) == c.pc = "idle" /\ c.result = "ok"

\* the call has returned with an error
Failed(c) == c.pc = "idle" /\ c.result \notin {"none", "ok"}

\* ------------------------------------------------------------------- claims

\* C1: a call takes the branch the decision table gives for its
\* (requestedReset, keys local, keys in storage), and performs that action only:
\* keys are generated only on Reset, imported only on Import, and a call that
\* returns successfully has performed exactly the action of its decision.
C1_DecisionTable ==
    \A p \in Procs :
        LET c == call[p] IN
        /\ InBranch(c) =>
              c.decision = DecisionTable(c.opts.setupNewCrossSigning,
                                         \A k \in KeyNames : c.loc.olmDeviceStatus[k],
                                         AllHeld(c.loc.secrets))
        /\ c.gen > 0 => c.decision = "Reset" /\ c.gen = 1
        /\ c.imported => c.decision = "Import"
        /\ c.exportCalls > 0 => c.decision \in {"Reset", "Export"} /\ c.exportCalls = 1
        /\ Succeeded(c) =>
              \/ c.decision = "Reset" /\ c.gen = 1 /\ ~c.imported
              \/ c.decision = "Export" /\ c.gen = 0 /\ ~c.imported /\ c.exportCalls = 1
              \/ c.decision = "Import" /\ c.gen = 0 /\ c.imported /\ c.exportCalls = 0

\* a call without resetKeys found keys local and in storage and exported,
\* another found them in storage only and imported
C1_Witness ==
    /\ Succeeded(call[1]) /\ call[1].decision = "Import" /\ call[1].imported
    /\ Succeeded(call[2]) /\ call[2].decision = "Export" /\ AllHeld(storage)
    /\ ~call[2].opts.setupNewCrossSigning

\* C2: after a call returned successfully, with secret storage configured,
\* the keys the OlmMachine holds are the keys in the secret storage.
C2_KeysStoredAfterSuccess ==
    \A p \in SeqProcs :
        (Succeeded(call[p]) /\ ssConfigured) =>
            /\ AllHeld(olm) <=> AllHeld(storage)
            /\ AllHeld(olm) => storage = olm

\* C3: two calls without resetKeys never both generate keys (which they do
\* only if their read-decide-act sequences interleave).
C3_NoDoubleReset ==
    ~ /\ ~call[1].opts.setupNewCrossSigning /\ call[1].gen = 1
      /\ ~call[2].opts.setupNewCrossSigning /\ call[2].gen = 1

\* C4: a call hands its requests to the request processor in the order they
\* were produced, one at a time: request N+1 is dispatched only after request N
\* completed.
C4_RequestsInOrder ==
    \A p \in Procs :
        LET c == call[p] IN
        /\ Cardinality(c.inflight) <= 1
        /\ \A n \in 1..Len(c.sent) : c.sent[n] = n
        /\ c.inflight # {} => c.inflight = {Len(c.sent)}
        /\ c.pc \in {"publish", "await_req", "auth_cb"} =>
              /\ Len(c.sent) <= Len(c.loc.reqs)
              /\ c.decision = "Reset" =>
                    /\ Len(c.loc.reqs) = 2
                    /\ c.loc.reqs[1].type = "keys" /\ c.loc.reqs[2].type = "sig"

\* a Reset whose second request is in flight, the first having completed
C4_Witness ==
    \E p \in Procs :
        /\ call[p].decision = "Reset"
        /\ call[p].sent = <<1, 2>>
        /\ call[p].inflight = {2}
        /\ server.pubKeys = call[p].loc.reqs[1].key

\* caller p is in (or has returned from) a call without resetKeys that took a
\* branch, made after an earlier call without resetKeys that took a branch
SecondOfTwo(p) ==
    /\ ~call[p].opts.setupNewCrossSigning /\ call[p].decision # "none"
    /\ ~prev[p].reset /\ prev[p].dec # "none"

\* C5 as stated: two calls without resetKeys in succession, nothing else
\* touching the stores, take the same decision.
C5_SameDecisionTwice ==
    \A p \in SeqProcs : SecondOfTwo(p) => call[p].decision = prev[p].dec

\* C5 as amended: the second call takes the decision of the first when the
\* first generated and imported no keys (it decided ExportToStorage, or it
\* failed before changing the local keys); when the first generated or
\* imported keys, the second decides ExportToStorage.
C5_SecondDecision ==
    \A p \in SeqProcs :
        SecondOfTwo(p) =>
            call[p].decision =
                IF prev[p].gen > 0 \/ prev[p].imported THEN "Export" ELSE prev[p].dec

\* the first call imported the keys from storage and returned, the second
\* decided ExportToStorage and returned
C5_Witness ==
    \E p \in SeqProcs :
        /\ SecondOfTwo(p)
        /\ prev[p].dec = "Import" /\ prev[p].imported /\ prev[p].res = "ok"
        /\ Succeeded(call[p]) /\ call[p].decision = "Export"

\* C6: a call without resetKeys made right after a successful call submits no
\* request and generates no keys.
C6_SecondCallPublishesNothing ==
    \A p \in SeqProcs :
        (~call[p].opts.setupNewCrossSigning /\ prev[p].res = "ok") =>
            /\ call[p].sent = << >>
            /\ call[p].inflight = {}
            /\ call[p].gen = 0

\* the first call was a successful Reset of a fresh identity that published
\* its two requests, the second call returned successfully
C6_Witness ==
    \E p \in SeqProcs :
        /\ prev[p].res = "ok" /\ prev[p].dec = "Reset" /\ ~prev[p].reset
        /\ server.pubKeys = 2 /\ server.deviceSig = 2
        /\ ~call[p].opts.setupNewCrossSigning /\ Succeeded(call[p])

\* C7: a call without resetKeys on a fresh identity (no key local, storage
\* configured and empty) that returns successfully has decided Reset, has
\* submitted the two requests in order, and the status afterwards reports
\* publicKeysOnDevice and privateKeysInSecretStorage.
C7_FreshBootstrap ==
    \A p \in SeqProcs :
        LET c == call[p] IN
        ( /\ ~c.opts.setupNewCrossSigning /\ Succeeded(c)
          /\ c.pre.olm = NoKeys /\ c.pre.storage = NoKeys /\ ssConfigured ) =>
            /\ c.decision = "Reset"
            /\ c.sent = <<1, 2>>
            /\ getCrossSigningStatus.publicKeysOnDevice
            /\ getCrossSigningStatus.privateKeysInSecretStorage

\* C8: when the request processor fails a request of a call, the call has
\* returned with that error, the failed request was the last one dispatched
\* and was dispatched once, no export was attempted and the import callback
\* was not invoked.
C8_RequestFailurePropagates ==
    \A p \in Procs :
        LET c == call[p] IN
        c.reqErr # "none" =>
            /\ c.pc = "idle"
            /\ c.result = c.reqErr
            /\ c.inflight = {}
            /\ c.failedAt = Len(c.sent)
            /\ \A n \in 1..Len(c.sent) : c.sent[n] = n
            /\ c.exportCalls = 0
            /\ c.cb = 0

\* the first of the two requests of a Reset failed with a network error, and
\* the signature upload of an import was refused
C8_Witness ==
    /\ call[1].decision = "Reset" /\ call[1].reqErr = "NetworkError" /\ call[1].sent = <<1>>
    /\ call[2].decision = "Import" /\ call[2].reqErr = "ServerRejected" /\ call[2].imported

\* C9: after a Reset that generated keys and then failed, the generated keys
\* are still held, and the next call without resetKeys decides
\* ExportToStorage and generates no keys.
C9_ResumeAfterFailedReset ==
    \A p \in SeqProcs :
        ( /\ prev[p].dec = "Reset" /\ prev[p].gen = 1 /\ prev[p].res \notin {"ok", "none"}
          /\ ~call[p].opts.setupNewCrossSigning ) =>
            /\ olm = [k \in KeyNames |-> nextKey - 1]
            /\ call[p].gen = 0
            /\ call[p].decision \in {"none", "Export"}
            /\ InBranch(call[p]) => call[p].decision = "Export"
            /\ Succeeded(call[p]) => call[p].decision = "Export"

\* the Reset failed at its second request, the next call exported and returned
C9_Witness ==
    \E p \in SeqProcs :
        /\ prev[p].dec = "Reset" /\ prev[p].gen = 1 /\ prev[p].res = "NetworkError"
        /\ server.pubKeys = nextKey - 1 /\ server.deviceSig # nextKey - 1
        /\ ~call[p].opts.setupNewCrossSigning
        /\ Succeeded(call[p]) /\ call[p].decision = "Export"

\* C10: after a call returned successfully, cross-signing is ready.
C10_ReadyAfterBootstrap ==
    \A p \in SeqProcs : Succeeded(call[p]) => isCrossSigningReady

\* C11: a call that fails loses no key: every private key the OlmMachine held
\* when the call started is still held after it, and every secret that was in
\* the secret storage is still there (so all three before means all three after).
C11_FailureKeepsKeys ==
    \A p \in Procs :
        Failed(call[p]) =>
            \A k \in KeyNames :
                /\ call[p].pre.olm[k] # 0 => olm[k] # 0
                /\ call[p].pre.storage[k] # 0 => storage[k] # 0

\* a Reset of an identity that had its keys locally and in storage generated
\* new keys and then failed at a request
C11_Witness ==
    \E p \in Procs :
        /\ Failed(call[p]) /\ call[p].gen = 1 /\ call[p].reqErr # "none"
        /\ AllHeld(call[p].pre.olm) /\ AllHeld(call[p].pre.storage)
        /\ AllHeld(olm) /\ olm # call[p].pre.olm

\* C12: on the import branch the keys are imported, then the own device is
\* signed, then the signature upload is submitted, then
\* onCrossSigningKeysImport is called: the callback is called once, by a call
\* that imported and whose one request was dispatched and completed without
\* error, a successful import has called it, and Reset and Export never call it.
C12_ImportOrder ==
    \A p \in Procs :
        LET c == call[p] IN
        /\ c.pc \in {"get_device", "verify", "import_submit"} =>
              c.imported /\ c.sent = << >> /\ c.cb = 0
        /\ c.pc = "import" => ~c.imported /\ c.sent = << >> /\ c.cb = 0
        /\ c.pc = "import_submit" =>
              c.loc.reqs = << [type |-> "sig", key |-> c.loc.reqs[1].key] >>
        /\ (c.decision = "Import" /\ c.sent # << >>) => c.imported /\ c.sent = <<1>>
        /\ (c.decision = "Import" /\ c.pc = "await_req") => c.cb = 0 /\ c.inflight = {1}
        /\ c.cb > 0 =>
              /\ c.cb = 1
              /\ c.decision = "Import" /\ c.imported
              /\ c.sent = <<1>> /\ c.inflight = {} /\ c.reqErr = "none"
              /\ Succeeded(c)
        /\ (Succeeded(c) /\ c.decision = "Import") => c.cb = 1
        /\ c.decision \in {"Reset", "Export"} => c.cb = 0

\* an import completed: keys imported, signature uploaded, callback called
C12_Witness ==
    \E p \in Procs :
        /\ Succeeded(call[p]) /\ call[p].decision = "Import"
        /\ call[p].imported /\ call[p].sent = <<1>> /\ call[p].cb = 1
        /\ server.deviceSig = olm["self_signing"] /\ olm = storage

\* one or two of the three secrets are present
Partial(h) == ~AllHeld(h) /\ h # NoKeys

\* C13: when one or two of the three secrets are in the secret storage, a call
\* without resetKeys never imports, and when it found not all three keys
\* locally it takes the Reset branch; keys are imported only when all three
\* secrets were in the storage.
C13_PartialStorageNotImported ==
    \A p \in Procs :
        LET c == call[p] IN
        /\ c.imported => AllHeld(c.pre.storage)
        /\ (~c.opts.setupNewCrossSigning /\ Partial(c.pre.storage)) =>
              /\ ~c.imported
              /\ c.decision # "Import"
              /\ c.pc \notin {"import", "get_device", "verify", "import_submit"}
              /\ (InBranch(c) /\ ~(\A k \in KeyNames : c.loc.olmDeviceStatus[k])) =>
                    /\ c.decision = "Reset"
                    /\ Partial(c.loc.secrets)

\* storage held two of the three secrets and no key was local: the call
\* without resetKeys generated new keys and returned
C13_Witness ==
    \E p \in Procs :
        LET c == call[p] IN
        /\ ~c.opts.setupNewCrossSigning
        /\ c.pre.storage = Holding({"self_signing", "user_signing"})
        /\ c.pre.olm = NoKeys
        /\ Succeeded(c) /\ c.decision = "Reset" /\ c.gen = 1

\* C14: a call with resetKeys goes straight to Reset: it is never at the
\* status query, at a secret storage read or in the import branch, it has read
\* nothing, it imports nothing and does not call the import callback, and when
\* it returns successfully it has generated keys once, submitted both requests
\* and exported.
C14_RequestedReset ==
    \A p \in Procs :
        LET c == call[p] IN
        c.opts.setupNewCrossSigning =>
            /\ c.decision = "Reset"
            /\ c.pc \in {"reset_gen", "publish", "await_req", "auth_cb", "export", "idle"}
            /\ c.loc.olmDeviceStatus = NoStatus
            /\ c.loc.secrets = NoKeys
            /\ ~c.imported
            /\ c.cb = 0
            /\ Succeeded(c) => c.gen = 1 /\ c.sent = <<1, 2>> /\ c.exportCalls = 1

\* keys were held locally and in storage, and the call with resetKeys replaced
\* the local ones
C14_Witness ==
    \E p \in Procs :
        LET c == call[p] IN
        /\ c.opts.setupNewCrossSigning
        /\ AllHeld(c.pre.olm) /\ AllHeld(c.pre.storage)
        /\ Succeeded(c) /\ c.gen = 1
        /\ AllHeld(olm) /\ olm # c.pre.olm

\* the steps of caller p belong to the call it is in (no new call started)
SameCall(p) == call'[p].pre = call[p].pre /\ calls' = calls

\* C15: a call decides once: the branch it has taken never changes while the
\* call runs, whatever the other call does to the stores and whichever step
\* fails, and a call never both generates keys and imports keys.
C15_DecidedOnce ==
    [][\A p \in Procs :
          /\ (call[p].decision # "none" /\ SameCall(p)) =>
                call'[p].decision = call[p].decision
          /\ ~(call'[p].gen > 0 /\ call'[p].imported)
          /\ call'[p].gen <= 1
          /\ call'[p].pc \in {"reset_gen", "publish", "auth_cb"} => call'[p].decision = "Reset"
          /\ call'[p].pc \in {"import", "get_device", "verify", "import_submit"} =>
                call'[p].decision = "Import"]_vars

\* one call generated keys while the other, having read the stores before
\* that, imported the keys of the storage
C15_Witness ==
    /\ call[1].decision = "Reset" /\ call[1].gen = 1
    /\ call[2].decision = "Import" /\ call[2].imported
    /\ call[1].pc # "idle" /\ call[2].pc # "idle"

C17_NoUploadWithoutAuthCallback ==
    \A p \in SeqProcs :
        LET c == call[p] IN
        ~c.opts.auth =>
            \A n \in 1..Len(c.sent) :
                ~(c.decision = "Reset" /\ GeneratedRequests(0)[c.sent[n]].type = "keys")

\* C18: a challenge is handed to the auth callback only when one was given;
\* after the callback returned auth data the request goes on with it and, no
\* request failing, the call completes successfully with both requests
\* submitted; when the callback rejects, the call has returned with that
\* rejection, the challenged request was the last one dispatched and nothing
\* was exported.
C18_AuthChallenge ==
    \A p \in Procs :
        LET c == call[p] IN
        /\ c.pc = "auth_cb" =>
              HasAuthCallback(c) /\ c.inflight = {Len(c.sent)} /\ ~c.loc.authed
        /\ c.loc.authed =>
              /\ c.opts.auth /\ c.decision = "Reset"
              /\ c.pc \in {"await_req", "publish", "export"}
              /\ c.pc = "await_req" => c.inflight = {Len(c.sent)}
        /\ (c.pc = "idle" /\ c.gen = 1 /\ c.reqErr = "none") =>
              c.result = "ok" /\ c.sent = <<1, 2>>
        /\ c.reqErr = "AuthRejected" =>
              /\ c.opts.auth
              /\ c.pc = "idle" /\ c.result = "AuthRejected"
              /\ c.inflight = {} /\ c.failedAt = Len(c.sent)
              /\ c.exportCalls = 0

\* the second request was challenged, the callback returned auth data and the
\* server accepted the request: the loop is over with both requests done
C18_Witness ==
    \E p \in Procs :
        LET c == call[p] IN
        /\ c.pc = "export" /\ c.loc.authed /\ c.reqErr = "none"
        /\ c.sent = <<1, 2>> /\ c.inflight = {}
        /\ server.deviceSig = c.loc.reqs[2].key

\* C19: with all three keys held locally and all three secrets in storage, a
\* call without resetKeys changes nothing: it generates and imports no key,
\* submits no request (so the server is left as it is), does not call the
\* import callback, and the local keys and the storage are what they were.
C19_NothingToDo ==
    \A p \in SeqProcs :
        LET c == call[p] IN
        (~c.opts.setupNewCrossSigning /\ AllHeld(c.pre.olm) /\ AllHeld(c.pre.storage)) =>
            /\ c.decision \in {"none", "Export"}
            /\ c.gen = 0 /\ ~c.imported
            /\ c.sent = << >> /\ c.inflight = {}
            /\ c.cb = 0
            /\ olm = c.pre.olm /\ storage = c.pre.storage

\* everything was set up, public keys and device signature published, and the
\* call returned successfully
C19_Witness ==
    \E p \in SeqProcs :
        LET c == call[p] IN
        /\ ~c.opts.setupNewCrossSigning /\ AllHeld(c.pre.olm) /\ AllHeld(c.pre.storage)
        /\ server.pubKeys = olm["master"] /\ server.deviceSig = olm["master"]
        /\ Succeeded(c) /\ c.decision = "Export"

\* C20: an unthreaded receipt with an older timestamp never replaces an
\* existing newer main-timeline receipt of the same user and receipt type:
\* after it was added, the main-timeline record is the one that existed and
\* getEventReadUpTo still returns that record's event.
C20_OlderUnthreadedKeepsMain ==
    (/\ lastAdd.thread_id = Unthreaded
     /\ lastAdd.existing # NoReceipt
     /\ lastAdd.existing.thread_id = MAIN_ROOM_TIMELINE
     /\ lastAdd.ts < lastAdd.existing.ts) =>
        /\ receipts[lastAdd.userId, lastAdd.receiptType, MAIN_ROOM_TIMELINE] = lastAdd.existing
        /\ getEventReadUpTo(receipts, lastAdd.userId, lastAdd.receiptType) = lastAdd.existing.eventId

\* $newerEvent was added for the main timeline, then $olderEvent arrived
\* unthreaded with an older timestamp
C20_Witness ==
    /\ lastAdd.thread_id = Unthreaded /\ lastAdd.eventId = "$olderEvent"
    /\ lastAdd.existing.thread_id = MAIN_ROOM_TIMELINE
    /\ lastAdd.existing.eventId = "$newerEvent"
    /\ lastAdd.ts < lastAdd.existing.ts
    /\ getEventReadUpTo(receipts, lastAdd.userId, lastAdd.receiptType) = "$newerEvent"

\* the (userId, receiptType, threadKey) records of the structure
Slots == Users \X ReceiptTypes \X ThreadKeys

\* the record the last addReceiptToStructure call was merged into
TargetOf(add) == <<add.userId, add.receiptType, ThreadKeyOf(add.thread_id)>>

\* C21: over any sequence of addReceiptToStructure calls the timestamp of the
\* record of every (userId, receiptType, threadKey) never decreases, and an
\* update whose timestamp is strictly smaller than the stored record's leaves
\* that record (eventId and timestamp) as it was.
C21_TimestampNeverDecreases ==
    [][\A s \in Slots :
          receipts[s] # NoReceipt =>
              /\ receipts'[s].ts >= receipts[s].ts
              /\ (TargetOf(lastAdd') = s /\ lastAdd'.ts < receipts[s].ts) =>
                    /\ receipts'[s].eventId = receipts[s].eventId
                    /\ receipts'[s].ts = receipts[s].ts]_vars

\* the thread's record was $newerEvent, then $olderEvent arrived for the same
\* thread with a smaller timestamp and the record is still $newerEvent
C21_Witness ==
    /\ lastAdd.thread_id = "$threadA" /\ lastAdd.eventId = "$olderEvent"
    /\ lastAdd.existing.eventId = "$newerEvent"
    /\ lastAdd.ts < lastAdd.existing.ts
    /\ receipts[TargetOf(lastAdd)] = lastAdd.existing

\* C22: getEventReadUpTo returns only the main-timeline record: it is absent
\* until a main-timeline or unthreaded receipt is added for that user and
\* type, and adding a receipt for a specific thread changes neither its
\* result (for any user and type) nor the record of any other thread key.
C22_ReadUpToIsMainOnly ==
    [][/\ adds = 0 =>
            \A u \in Users, t \in ReceiptTypes : getEventReadUpTo(receipts, u, t) = "none"
       /\ \A u \in Users, t \in ReceiptTypes :
            (getEventReadUpTo(receipts, u, t) = "none"
                /\ getEventReadUpTo(receipts', u, t) # "none") =>
               /\ lastAdd'.thread_id \in {MAIN_ROOM_TIMELINE, Unthreaded}
               /\ lastAdd'.userId = u /\ lastAdd'.receiptType = t
       /\ lastAdd'.thread_id \in ThreadIds =>
            /\ \A u \in Users, t \in ReceiptTypes :
                  getEventReadUpTo(receipts', u, t) = getEventReadUpTo(receipts, u, t)
            /\ \A s \in Slots :
                  s # <<lastAdd'.userId, lastAdd'.receiptType, lastAdd'.thread_id>> =>
                      receipts'[s] = receipts[s]]_vars

\* a thread receipt was stored for a user whose main-timeline record is
\* absent, and another for a user whose main-timeline record is another event
C22_Witness ==
    /\ lastAdd.thread_id = "$threadA" /\ lastAdd.eventId = "$newerEvent"
    /\ receipts[lastAdd.userId, lastAdd.receiptType, "$threadA"].eventId = "$newerEvent"
    /\ getEventReadUpTo(receipts, lastAdd.userId, lastAdd.receiptType) = "$olderEvent"
    /\ \E u \in Users :
          /\ receipts[u, lastAdd.receiptType, "$threadA"] # NoReceipt
          /\ getEventReadUpTo(receipts, u, lastAdd.receiptType) = "none"

Given(opts, f) == f \in DOMAIN opts /\ opts[f]

\* C24: isVerified() is true exactly when localVerified is true, or both
\* trustCrossSignedDevices and crossSigningVerified are true; every flag not
\* given to the constructor is false, so a status built with no options is not
\* verified, and signedByOwner and tofu never affect the result.
C24_IsVerified ==
    deviceTrust.made =>
        LET opts == deviceTrust.opts
            st == deviceTrust.status IN
        /\ isVerified(st) <=>
              (Given(opts, "localVerified")
                  \/ (Given(opts, "trustCrossSignedDevices")
                        /\ Given(opts, "crossSigningVerified")))
        /\ \A f \in StatusFlags \ DOMAIN opts : ~st[f]
        /\ DOMAIN opts = {} => ~isVerified(st)
        /\ \A o \in StatusOpts :
              (\A f \in StatusFlags \ {"signedByOwner", "tofu"} :
                    (f \in DOMAIN o <=> f \in DOMAIN opts)
                        /\ (f \in DOMAIN o => o[f] = opts[f]))
                  => isVerified(DeviceVerificationStatus(o)) = isVerified(st)

\* a status that is cross-signed and trusted but not locally verified, and
\* that was given neither signedByOwner nor tofu
C24_Witness ==
    /\ deviceTrust.made
    /\ DOMAIN deviceTrust.opts = {"trustCrossSignedDevices", "crossSigningVerified", "localVerified"}
    /\ ~deviceTrust.opts["localVerified"]
    /\ deviceTrust.opts["trustCrossSignedDevices"] /\ deviceTrust.opts["crossSigningVerified"]
    /\ isVerified(deviceTrust.status)

\* C25: an addReceiptToStructure whose timestamp equals that of the record
\* stored for the same threadKey overwrites the record: the stored record is
\* kept only when its timestamp is strictly greater, and so an update flagged
\* as main timeline with an equal timestamp replaces the main-timeline record.
C25_EqualTimestampOverwrites ==
    adds > 0 =>
        LET cur == receipts[TargetOf(lastAdd)]
            new == [eventId |-> lastAdd.eventId, ts |-> lastAdd.ts,
                    thread_id |-> lastAdd.thread_id] IN
        /\ (lastAdd.existing # NoReceipt /\ lastAdd.existing.ts > lastAdd.ts)
              => cur = lastAdd.existing
        /\ ~(lastAdd.existing # NoReceipt /\ lastAdd.existing.ts > lastAdd.ts)
              => cur = new
        /\ (lastAdd.existing # NoReceipt /\ lastAdd.existing.ts = lastAdd.ts
                /\ lastAdd.thread_id = MAIN_ROOM_TIMELINE)
              => getEventReadUpTo(receipts, lastAdd.userId, lastAdd.receiptType) = lastAdd.eventId

\* the main-timeline record was $olderEvent, and $newerEvent arrived for the
\* main timeline with the same timestamp
C25_Witness ==
    /\ adds > 0
    /\ lastAdd.thread_id = MAIN_ROOM_TIMELINE /\ lastAdd.eventId = "$newerEvent"
    /\ lastAdd.existing.eventId = "$olderEvent"
    /\ lastAdd.existing.ts = lastAdd.ts
    /\ getEventReadUpTo(receipts, lastAdd.userId, lastAdd.receiptType) = "$newerEvent"

\* the call has changed nothing: no key generated or imported, no request
\* submitted, no export, callback not invoked
NothingDone(c) ==
    /\ c.gen = 0 /\ ~c.imported
    /\ c.sent = << >> /\ c.inflight = {}
    /\ c.exportCalls = 0 /\ c.cb = 0

\* C26: in a call without setupNewCrossSigning the status query and the three
\* secret storage reads all happen before any mutation; when the status
\* query or one of the reads fails, the call fails with that error and
\* nothing was changed: no key generated, no key imported, no request
\* submitted, callback not invoked, the keys and the storage as they were.
C26_ReadsBeforeMutation ==
    \A p \in SeqProcs :
        LET c == call[p] IN
        ~c.opts.setupNewCrossSigning =>
            /\ c.pc \in {"status", "get_master", "get_self_signing", "get_user_signing"} =>
                  c.decision = "none" /\ NothingDone(c)
            /\ ~NothingDone(c) => c.decision # "none"
            /\ (c.pc = "idle" /\ calls > 0 /\ c.decision = "none") =>
                  /\ c.result \in {"EngineFailure", "StorageError"}
                  /\ NothingDone(c)
                  /\ olm = c.pre.olm /\ storage = c.pre.storage

\* the keys were only in storage and would have been imported, but a read of
\* the storage failed
C26_Witness ==
    \E p \in SeqProcs :
        LET c == call[p] IN
        /\ ~c.opts.setupNewCrossSigning
        /\ c.pre.olm = NoKeys /\ AllHeld(c.pre.storage)
        /\ Failed(c) /\ c.result = "StorageError" /\ c.decision = "none"
        /\ olm = NoKeys

\* C27: when the OlmMachine holds only one or two of the three private keys,
\* a call without setupNewCrossSigning never takes the export branch: it
\* imports from the secret storage when that holds all three secrets and
\* otherwise resets, and the reset replaces the partial key set by a new,
\* complete one.
C27_PartialLocalKeys ==
    \A p \in SeqProcs :
        LET c == call[p] IN
        (~c.opts.setupNewCrossSigning /\ Partial(c.pre.olm)) =>
            /\ c.decision # "Export"
            /\ c.exportCalls > 0 => c.decision = "Reset"
            /\ c.decision # "none" =>
                  c.decision = IF AllHeld(c.pre.storage) THEN "Import" ELSE "Reset"
            /\ c.imported => olm = c.pre.storage
            /\ c.gen > 0 =>
                  /\ AllHeld(olm)
                  /\ \A k \in KeyNames : olm[k] # c.pre.olm[k] /\ olm[k] = olm["master"]

\* only the master key was held and the storage was not complete: the call
\* reset and returned with a new complete key set
C27_Witness ==
    \E p \in SeqProcs :
        LET c == call[p] IN
        /\ ~c.opts.setupNewCrossSigning
        /\ c.pre.olm = Holding({"master"}) /\ ~AllHeld(c.pre.storage)
        /\ c.decision = "Reset" /\ Succeeded(c)
        /\ AllHeld(olm) /\ olm["master"] # c.pre.olm["master"]

\* C28: bootstrap is safe to retry after a failed import: when the keys were
\* imported into the OlmMachine but the upload of the device signature
\* failed, a later call without setupNewCrossSigning that succeeds has
\* uploaded the own-device signature and invoked the import callback.
C28_RetryAfterFailedImport ==
    \A p \in SeqProcs :
        ( /\ prev[p].dec = "Import" /\ prev[p].imported /\ prev[p].res \in RequestErrors
          /\ ~call[p].opts.setupNewCrossSigning
          /\ Succeeded(call[p]) ) =>
            /\ server.deviceSig = olm["self_signing"]
            /\ call[p].cb > 0

\* every collaborator call of a running call returns (resolves or rejects)
FairSeqSpec ==
    SeqSpec /\ WF_vars(\E p \in SeqProcs : Step(p) /\ UNCHANGED <<receiptVars, apiVars>>)

\* C29: provided each collaborator call returns, every call terminates, with
\* success or with an error; within one call keys are generated at most once
\* and before any request is submitted, and each generated request is
\* submitted at most once.
C29_TerminatesWithoutRetry ==
    /\ [](\A p \in SeqProcs :
            LET c == call[p] IN
            /\ c.gen <= 1
            /\ (c.decision = "Reset" /\ c.sent # << >>) => c.gen = 1
            /\ c.pc = "reset_gen" => c.sent = << >>
            /\ \A m, n \in 1..Len(c.sent) : c.sent[m] = c.sent[n] => m = n
            /\ (c.pc = "idle" /\ calls > 0) => c.result # "none")
    /\ \A p \in SeqProcs : (call[p].pc # "idle") ~> (call[p].pc = "idle")

\* a call generated keys, submitted both requests once each and returned
\* successfully; another returned with an error
C29_Witness ==
    \E p \in SeqProcs :
        /\ Succeeded(call[p]) /\ call[p].gen = 1 /\ call[p].sent = <<1, 2>>
        /\ prev[p].res \in RequestErrors

====
